---- MODULE Spec2Model ----
(***************************************************************************)
(* Model of the elix API service: the connection-resilience utility        *)
(* (elix_api/mcp_utils.py, retry_mcp_connection) and the background task    *)
(* tracking of the HTTP API (elix_api/api.py); the conversation memory      *)
(* (elix_api/agent/memory.py); the agent's setup, tool filtering and chat    *)
(* (elix_api/agent/base_agent.py, groq_agent.py); the upload and media       *)
(* endpoints; and the tools of the media service                             *)
(* (elix_mcp/video/tools.py); the settings of the API service               *)
(* (elix_api/config.py); and POST /chat requests handled concurrently.        *)
(*                                                                         *)
(* Time is counted in ticks of 1/8 second, so that every delay the backoff  *)
(* produces from the defaults (2.0, 3.0, 4.5, 6.75, 10.0 s) is an integer.   *)
(* Text is a sequence of words; `pattern in text` is a contiguous match of   *)
(* the pattern's words after lower-casing.                                   *)
(***************************************************************************)
EXTENDS Integers, Sequences, FiniteSets, TLC

VARIABLES
    rw,         \* the running retry_mcp_connection call (its locals)
    probeLog,   \* what the reachability probe of that call found
    calls,      \* number of calls of the wrapped operation so far
    firstRes,   \* result of the first call of the operation (NoCall before)
    lastRes,    \* result of the latest call of the operation (NoCall before)
    lastStart,  \* elapsed time when the latest call was started
    sleeps,     \* number of sleeps started so far
    lastSleep,  \* the latest sleep: elapsed time at its start, the delay
                \* variable then, the time asked for
    slept,      \* total time asked of asyncio.sleep so far
    bg_task_states,  \* app.state.bg_task_states: key -> stored string
    jobs,            \* the background jobs enqueued by POST /process-video
    files,           \* the paths that exist on disk
    response,        \* the task id GET /task-status is being answered for; the
                     \* answer is sent before any other step runs
    pxt,             \* the pixeltable catalog: directories, their memory table
    memory,          \* the Memory instance: directory, _memory_table
    memCall,         \* the latest call on the Memory instance and its outcome
    memHist,         \* what was done on the instance: reset or not, the
                     \* records inserted since construction or reset
    agent,           \* the agent: disable_tools, tools, the three prompts,
                     \* _is_setup
    server,          \* the media service as the agent sees it: its tools, the
                     \* number of failures it and the network may still produce
    agentOp,         \* the agent operation or POST /chat request in progress
    agentLog,        \* tool names call_tool has sent to the media service;
                     \* whether a setup() call has completed successfully
    http,            \* the response of the latest POST /chat
    filesystem,      \* the file system: its directories and files, each the
                     \* sequence of names from the root
    mediaReq,        \* the latest upload or media request and its response
    videoIndex,      \* media service: video path -> state of its index
    toolCall,        \* media service: the latest tool call and what it did
    ingestLog,       \* media service: per video path, what process_video has run
    config,          \* API service: the container marker, the MCP_SERVER
                     \* environment variable, the cached Settings
    chats            \* the POST /chat requests being handled concurrently

retryVars == <<rw, probeLog, calls, firstRes, lastRes, lastStart, sleeps, lastSleep, slept>>

apiVars == <<bg_task_states, jobs, files, response>>

memVars == <<pxt, memory, memCall, memHist>>

agentVars == <<agent, server, agentOp, agentLog, http>>

mediaVars == <<filesystem, mediaReq>>

toolVars == <<videoIndex, toolCall, ingestLog>>

configVars == <<config>>

chatVars == <<chats>>

restVars == <<memVars, agentVars, mediaVars, toolVars, configVars, chatVars>>
exceptMemVars == <<retryVars, apiVars, agentVars, mediaVars, toolVars, configVars, chatVars>>
exceptAgentVars == <<retryVars, apiVars, memVars, mediaVars, toolVars, configVars, chatVars>>
exceptMediaVars == <<retryVars, apiVars, memVars, agentVars, toolVars, configVars, chatVars>>
exceptToolVars == <<retryVars, apiVars, memVars, agentVars, mediaVars, configVars, chatVars>>
exceptConfigVars == <<retryVars, apiVars, memVars, agentVars, mediaVars, toolVars, chatVars>>
exceptChatVars ==
    <<retryVars, apiVars, memVars, mediaVars, toolVars, configVars, agentOp, agentLog, http>>

vars == <<rw, probeLog, calls, firstRes, lastRes, lastStart, sleeps, lastSleep, slept,
          bg_task_states, jobs, files, response, pxt, memory, memCall, memHist,
          agent, server, agentOp, agentLog, http, filesystem, mediaReq,
          videoIndex, toolCall, ingestLog, config, chats>>

(***************************************************************************)
(* Defaults of retry_mcp_connection, in ticks of 1/8 s.                     *)
(***************************************************************************)
DefaultMaxRetries == 5
DefaultInitialDelay == 16
DefaultMaxDelay == 80
BackoffNum == 3
BackoffDen == 2
DefaultMaxTotalTimeout == 480

(***************************************************************************)
(* Bounds of the model.                                                    *)
(***************************************************************************)
\* duration of a slow call of the wrapped operation (20 s)
OpSlow == 160
\* duration of a slow reachability probe (2 s, the TCP timeout)
ProbeSlow == 16
\* by how much asyncio.sleep may overshoot the requested time
Oversleep == 1
\* number of POST /process-video requests
MaxTasks == 2
\* a max_delay below the default (3 s), which caps the second retry already
ShortMaxDelay == 24

Min(a, b) == IF a <= b THEN a ELSE b

(***************************************************************************)
(* Text: str.lower() and the `in` operator on strings.                      *)
(***************************************************************************)
Lower(w) ==
    CASE w = "Connection" -> "connection"
      [] w = "Client" -> "client"
      [] w = "Errno" -> "errno"
      [] w = "Video" -> "video"
      [] w = "MCP" -> "mcp"
      [] w = "DNS" -> "dns"
      [] w = "Retry" -> "retry"
      [] OTHER -> w

LowerText(t) == [i \in 1..Len(t) |-> Lower(t[i])]

Contains(text, pat) ==
    \E i \in 1..(Len(text) - Len(pat) + 1) : SubSeq(text, i, i + Len(pat) - 1) = pat

(***************************************************************************)
(* Exceptions: kind, string arguments, and the identity of the object       *)
(* (the number of the call that raised it; 0 for one the wrapper makes).    *)
(***************************************************************************)
NoExc == [kind |-> "None", args |-> <<>>, id |-> 0]

Exc(kind, args, id) == [kind |-> kind, args |-> args, id |-> id]

\* str(e) of an exception: "" without arguments, the argument itself for
\* one, the tuple of the arguments otherwise
RECURSIVE JoinArgs(_)
JoinArgs(args) ==
    IF Len(args) = 0 THEN <<>> ELSE <<"'">> \o Head(args) \o <<"'", ",">> \o JoinArgs(Tail(args))

Str(e) ==
    IF Len(e.args) = 0 THEN <<>>
    ELSE IF Len(e.args) = 1 THEN e.args[1]
    ELSE <<"(">> \o JoinArgs(e.args) \o <<")">>

\* isinstance(e, (ConnectionError, OSError)); TimeoutError is an OSError
IsOSError(e) == e.kind \in {"OSError", "ConnectionError", "TimeoutError"}

TimeoutExc == Exc("TimeoutError", << <<"MCP", "connection", "retry", "timeout">> >>, 0)
DnsExc == Exc("ConnectionError", << <<"DNS", "resolution", "failed">> >>, 0)
UnexpectedExc == Exc("RuntimeError", << <<"Retry", "logic", "failed", "unexpectedly">> >>, 0)

\* the errors the wrapped operation may raise
ErrorTemplates ==
    { [kind |-> "ConnectionError", args |-> << <<"Connection", "refused">> >>],
      [kind |-> "RuntimeError", args |-> << <<"Client", "failed", "to", "connect">> >>],
      [kind |-> "RuntimeError", args |-> << <<"Connection", "closed">> >>],
      [kind |-> "ToolError", args |-> << <<"Video", "processing", "failed">> >>],
      [kind |-> "ValueError", args |-> <<>>] }

(***************************************************************************)
(* Classification of a failure, retry_mcp_connection lines 140-169.         *)
(***************************************************************************)
MessageMatches(e) ==
    LET m == LowerText(Str(e)) IN
    \/ Contains(m, <<"name", "or", "service", "not", "known">>)
    \/ Contains(m, <<"failed", "to", "connect">>)
    \/ Contains(m, <<"client", "failed", "to", "connect">>)
    \/ /\ Contains(m, <<"connection">>)
       /\ \/ Contains(m, <<"refused">>)
          \/ Contains(m, <<"failed">>)
          \/ Contains(m, <<"error">>)
    \/ Contains(m, <<"all", "connection", "attempts", "failed">>)
    \/ Contains(m, <<"errno", "-2">>)
    \/ Contains(m, <<"errno", "111">>)
    \/ Contains(m, <<"errno", "61">>)
    \/ IsOSError(e)

ArgsMatch(e) ==
    \E i \in 1..Len(e.args) :
        LET a == LowerText(e.args[i]) IN
        \/ Contains(a, <<"name", "or", "service", "not", "known">>)
        \/ Contains(a, <<"failed", "to", "connect">>)
        \/ Contains(a, <<"connection">>)

IsConnectionErrorAll(e) == TRUE

IsConnectionError(e) == MessageMatches(e) \/ ArgsMatch(e)

(***************************************************************************)
(* retry_mcp_connection as a state machine over a record r:                 *)
(*   pc "probe" -> "loop" -> ("sleeping" -> "loop")* -> "done"              *)
(***************************************************************************)
NoOutcome == [type |-> "none", exc |-> NoExc]

RetryStart(max_retries, initial_delay, max_delay, max_total_timeout, has_url) ==
    [ pc |-> IF has_url THEN "probe" ELSE "loop",
      max_retries |-> max_retries,
      initial_delay |-> initial_delay,
      max_delay |-> max_delay,
      max_total_timeout |-> max_total_timeout,
      attempt |-> 0,
      delay |-> initial_delay,
      now |-> 0,
      last_exception |-> NoExc,
      dns_failed |-> FALSE,
      sleep_time |-> 0,
      outcome |-> NoOutcome ]

Raise(r, e) == [r EXCEPT !.pc = "done", !.outcome = [type |-> "raise", exc |-> e]]

Return(r) == [r EXCEPT !.pc = "done", !.outcome = [type |-> "return", exc |-> NoExc]]

LastOr(r, e) == IF r.last_exception # NoExc THEN r.last_exception ELSE e

\* lines 85-111: the probe and the second DNS lookup take dur ticks
Probe(r, dur, is_reachable, lookup) ==
    [r EXCEPT !.pc = "loop",
              !.now = @ + dur,
              !.dns_failed = (is_reachable = "no" /\ lookup = "gaierror")]

\* line 113: for attempt in range(max_retries + 1)
AttemptInRange(r) == r.attempt <= r.max_retries

\* lines 115-130: does this pass of the loop reach `await func()`
Invokes(r) ==
    /\ r.pc = "loop"
    /\ AttemptInRange(r)
    /\ r.now < r.max_total_timeout
    /\ ~(r.dns_failed /\ r.attempt > 0)

SleepTimeUncapped(delay, time_remaining) == delay

SleepTime(delay, time_remaining) == Min(delay, time_remaining)

\* lines 138-238: the operation raised e
HandleFailure(r, e) ==
    LET r1 == [r EXCEPT !.last_exception = e] IN
    IF ~IsConnectionError(e) THEN Raise(r1, e)
    ELSE IF r1.attempt < r1.max_retries
    THEN LET time_remaining == r1.max_total_timeout - r1.now IN
         IF time_remaining <= 0 THEN Raise(r1, TimeoutExc)
         ELSE [r1 EXCEPT !.pc = "sleeping", !.sleep_time = SleepTime(r1.delay, time_remaining)]
    ELSE Raise(r1, e)

\* one pass of the loop of lines 113-238, up to the sleep; the operation
\* takes dur ticks and returns (res = NoExc) or raises res
Attempt(r, dur, res) ==
    IF ~AttemptInRange(r) THEN Raise(r, LastOr(r, UnexpectedExc))
    ELSE IF r.now >= r.max_total_timeout THEN Raise(r, LastOr(r, TimeoutExc))
    ELSE IF r.dns_failed /\ r.attempt > 0 THEN Raise(r, LastOr(r, DnsExc))
    ELSE LET r1 == [r EXCEPT !.now = @ + dur] IN
         IF res = NoExc THEN Return(r1) ELSE HandleFailure(r1, res)

NextDelayUncapped(delay, max_delay) == (delay * BackoffNum) \div BackoffDen

NextDelay(delay, max_delay) == Min((delay * BackoffNum) \div BackoffDen, max_delay)

SleepSameAttempt(r, over) ==
    [r EXCEPT !.pc = "loop",
              !.now = @ + r.sleep_time + over,
              !.delay = NextDelay(@, r.max_delay),
              !.sleep_time = 0]

\* lines 193-194 and the next iteration of the for loop
Sleep(r, over) ==
    [r EXCEPT !.pc = "loop",
              !.now = @ + r.sleep_time + over,
              !.delay = NextDelay(@, r.max_delay),
              !.attempt = @ + 1,
              !.sleep_time = 0]

(***************************************************************************)
(* The HTTP API: the task-state map, POST /process-video and its            *)
(* background job, GET /task-status (elix_api/api.py).                      *)
(***************************************************************************)
\* TaskStatus values, as the strings the enum members are
PENDING == <<"pending">>
IN_PROGRESS == <<"in_progress">>
COMPLETED == <<"completed">>
FAILED == <<"failed">>
NOT_FOUND == <<"not_found">>

\* str(uuid4()): the next unused id
IdPool == <<"t1", "t2", "t3", "t4">>
OneKey(id) == <<IdPool[1]>>

TaskKey(id) == <<id>>
\* f"{task_id}_error"
ErrorKey(key) == key \o <<"_error">>

VideoPaths == {"a.mp4", "b.mp4"}
NoRetry == RetryStart(0, 0, 0, 0, FALSE)
NoResponse == [asked |-> FALSE, task_id |-> <<>>]

ApiIdle ==
    /\ bg_task_states = <<>>
    /\ jobs = <<>>
    /\ files = {"a.mp4"}
    /\ response = NoResponse

(***************************************************************************)
(* The other components before anything is constructed: each               *)
(* specification below runs one component and leaves the others here.       *)
(***************************************************************************)
EmptyCatalog == [dirs |-> <<>>, created |-> 0]
NoMemory == [directory |-> <<>>, _memory_table |-> 0]
NoMemCall == [op |-> "none", arg |-> <<>>, raised |-> "None", value |-> <<>>]
NoHist == [reset |-> FALSE, inserted |-> <<>>]

MemIdle ==
    /\ pxt = EmptyCatalog
    /\ memory = NoMemory
    /\ memCall = NoMemCall
    /\ memHist = NoHist

\* Python's None and a value that is not None
None == <<>>
Some(x) == <<x>>

\* BaseAgent.__init__, lines 20-26
NewAgent(disable_tools) ==
    [ disable_tools |-> disable_tools,
      tools |-> None,
      routing_system_prompt |-> None,
      tool_use_system_prompt |-> None,
      general_system_prompt |-> None,
      _is_setup |-> FALSE ]

NoResult == [type |-> "none", exc |-> NoExc, value |-> <<>>]
NoOp ==
    [ handler |-> "none", pc |-> "idle", name |-> "", fetch |-> 0, elapsed |-> 0,
      outer |-> NoRetry, inner |-> NoRetry, called |-> FALSE, result |-> NoResult,
      tries |-> [f \in 1..4 |-> 0], all_failed |-> TRUE ]
NoLog == [called |-> {}, setup_done |-> FALSE]
NoHttp == [status |-> 0, body |-> <<>>]

AgentIdle ==
    /\ agent = NewAgent(<<>>)
    /\ server = [tools |-> <<>>, faults |-> 0]
    /\ agentOp = NoOp
    /\ agentLog = NoLog
    /\ http = NoHttp

\* the working directory of the API service and its shared_media
Cwd == <<"app">>
SharedDir == <<"app", "shared_media">>
NoMediaReq == [route |-> "none", path |-> <<>>, status |-> 0, body |-> <<>>, served_by |-> "none"]

MediaIdle ==
    /\ filesystem = [dirs |-> {<<>>, Cwd, SharedDir}, files |-> {}]
    /\ mediaReq = NoMediaReq

NoFound == [speech |-> <<>>, caption |-> <<>>]
NoToolCall ==
    [ tool |-> "none", video_path |-> "", raised |-> NoExc, value |-> <<>>,
      searches |-> {}, found |-> NoFound, clip |-> None ]
NoIngest ==
    [ setups |-> [p \in VideoPaths |-> 0], runs |-> [p \in VideoPaths |-> 0],
      done |-> [p \in VideoPaths |-> 0] ]

ToolsIdle ==
    /\ videoIndex = [p \in VideoPaths |-> "none"]
    /\ toolCall = NoToolCall
    /\ ingestLog = NoIngest

ConfigIdle ==
    config = [in_docker |-> FALSE, MCP_SERVER |-> None, cached |-> None, got |-> None]

ChatsIdle == chats = <<>>

RestIdle == MemIdle /\ AgentIdle /\ MediaIdle /\ ToolsIdle /\ ConfigIdle /\ ChatsIdle

(***************************************************************************)
(* Specification of one call of retry_mcp_connection.                       *)
(***************************************************************************)
RetriesChoices == {0, 1, DefaultMaxRetries}
MaxDelayChoices == {DefaultMaxDelay, ShortMaxDelay}
OpDurations == {0, OpSlow, DefaultMaxTotalTimeout}
ProbeDurations == {0, ProbeSlow, DefaultMaxTotalTimeout}
Oversleeps == {0, Oversleep}
OpResults(id) == {NoExc} \cup {Exc(t.kind, t.args, id) : t \in ErrorTemplates}
NoCall == [kind |-> "NoCall", args |-> <<>>, id |-> 0]
NoProbe == [ran |-> FALSE, is_reachable |-> "yes", lookup |-> "resolved", dur |-> 0]
NoSleep == [at |-> 0, delay |-> 0, dur |-> 0]

RetryInit ==
    /\ \E m \in RetriesChoices, d \in MaxDelayChoices, u \in BOOLEAN :
           rw = RetryStart(m, DefaultInitialDelay, d, DefaultMaxTotalTimeout, u)
    /\ probeLog = NoProbe
    /\ calls = 0
    /\ firstRes = NoCall
    /\ lastRes = NoCall
    /\ lastStart = 0
    /\ sleeps = 0
    /\ lastSleep = NoSleep
    /\ slept = 0
    /\ ApiIdle
    /\ RestIdle

RetryProbe ==
    /\ rw.pc = "probe"
    /\ \E dur \in ProbeDurations, is_reachable \in {"yes", "no", "raised"},
          lookup \in {"resolved", "gaierror", "raised"} :
           /\ rw' = Probe(rw, dur, is_reachable, lookup)
           /\ probeLog' = [ran |-> TRUE, is_reachable |-> is_reachable,
                           lookup |-> IF is_reachable = "no" THEN lookup ELSE "resolved",
                           dur |-> dur]
    /\ UNCHANGED <<calls, firstRes, lastRes, lastStart, sleeps, lastSleep, slept>>
    /\ UNCHANGED <<apiVars, restVars>>

RetryAttempt ==
    /\ rw.pc = "loop"
    /\ IF Invokes(rw)
       THEN \E dur \in OpDurations, res \in OpResults(calls + 1) :
               /\ rw' = Attempt(rw, dur, res)
               /\ calls' = calls + 1
               /\ firstRes' = IF calls = 0 THEN res ELSE firstRes
               /\ lastRes' = res
               /\ lastStart' = rw.now
       ELSE /\ rw' = Attempt(rw, 0, NoExc)
            /\ UNCHANGED <<calls, firstRes, lastRes, lastStart>>
    /\ IF rw'.pc = "sleeping"
       THEN /\ sleeps' = sleeps + 1
            /\ lastSleep' = [at |-> rw'.now, delay |-> rw'.delay, dur |-> rw'.sleep_time]
            /\ slept' = slept + rw'.sleep_time
       ELSE UNCHANGED <<sleeps, lastSleep, slept>>
    /\ UNCHANGED probeLog
    /\ UNCHANGED <<apiVars, restVars>>

RetrySleep ==
    /\ rw.pc = "sleeping"
    /\ \E over \in Oversleeps : rw' = Sleep(rw, over)
    /\ UNCHANGED <<probeLog, calls, firstRes, lastRes, lastStart, sleeps, lastSleep, slept>>
    /\ UNCHANGED <<apiVars, restVars>>

RetryNext == RetryProbe \/ RetryAttempt \/ RetrySleep

SpecRetry == RetryInit /\ [][RetryNext]_vars

(***************************************************************************)
(* The handlers of the HTTP API.                                            *)
(***************************************************************************)
\* dict.get(key, default)
Get(map, key, default) == IF key \in DOMAIN map THEN map[key] ELSE default

\* map[key] = value
Put(map, key, value) == [k \in DOMAIN map \cup {key} |-> IF k = key THEN value ELSE map[k]]

\* get_task_status: the response body; a missing error is the empty text
TaskStatusResponse(map, task_id) ==
    LET status == Get(map, task_id, NOT_FOUND)
        error == Get(map, ErrorKey(task_id), <<>>)
    IN [task_id |-> task_id, status |-> status,
        has_error |-> error # <<>>, error |-> error]

\* the is_connection_error of the inner handler, lines 130-136
InnerIsConnectionError(e) ==
    LET m == LowerText(Str(e)) IN
    \/ Contains(m, <<"name", "or", "service", "not", "known">>)
    \/ Contains(m, <<"failed", "to", "connect">>)
    \/ /\ Contains(m, <<"connection">>)
       /\ \/ Contains(m, <<"refused">>)
          \/ Contains(m, <<"failed">>)
          \/ Contains(m, <<"error">>)
    \/ Contains(m, <<"all", "connection", "attempts", "failed">>)
    \/ IsOSError(e)

\* the is_connection_error of the outer handler, lines 167-173
OuterIsConnectionError(e) ==
    LET m == LowerText(Str(e)) IN
    \/ Contains(m, <<"name", "or", "service", "not", "known">>)
    \/ Contains(m, <<"failed", "to", "connect">>)
    \/ Contains(m, <<"all", "connection", "attempts", "failed">>)
    \/ /\ Contains(m, <<"connection">>)
       /\ \/ Contains(m, <<"refused">>)
          \/ Contains(m, <<"failed">>)
          \/ Contains(m, <<"error">>)
    \/ IsOSError(e)

MissingFileMsg(path) == <<"Video", "file", "not", "found", "at", path>>
ConnectMsg(e) == <<"Failed", "to", "connect", "to", "MCP", "server", "Original", "error:">> \o Str(e)
ProcessingMsg(path, e) ==
    IF OuterIsConnectionError(e)
    THEN <<"Error", "processing", "video", path, ":", "Failed", "to", "connect", "to",
           "MCP", "server", "Original", "error:">> \o Str(e)
    ELSE <<"Error", "processing", "video", path, ":">> \o Str(e)

RecordStatusOnly(map, id, msg) == Put(map, TaskKey(id), FAILED)

\* lines 107-108, 155-156, 195-196
RecordFailure(map, id, msg) == Put(Put(map, TaskKey(id), FAILED), ErrorKey(TaskKey(id)), msg)

\* words of a message that hold a {...} replacement field of str.format
BraceWords == {"{'detail':'busy'}"}
HasReplacementField(message) == \E i \in 1..Len(message) : message[i] \in BraceWords

\* loguru's logger.error(message, **kwargs): with keyword arguments the
\* record's text is message.format(**kwargs), which raises KeyError for a
\* replacement field that names none of them; exc_info is such a keyword
LogRaises(message, has_kwargs) == has_kwargs /\ HasReplacementField(message)

\* lines 123-196: the exception that leaves the job once
\* retry_mcp_connection has ended (NoExc: the job returns); line 152 logs
\* without keyword arguments, line 194 logs with exc_info=True
JobEscapes(path, r) ==
    IF r.outcome.type = "return" THEN NoExc
    ELSE IF InnerIsConnectionError(r.outcome.exc) THEN NoExc
    ELSE IF LogRaises(ProcessingMsg(path, r.outcome.exc), TRUE)
    THEN Exc("KeyError", << <<"'detail'">> >>, r.outcome.exc.id)
    ELSE NoExc

\* lines 123-196: what the job stores once retry_mcp_connection has ended
AfterRetry(map, id, path, r) ==
    IF r.outcome.type = "return" THEN Put(map, TaskKey(id), COMPLETED)
    ELSE IF InnerIsConnectionError(r.outcome.exc)
    THEN RecordFailure(map, id, ConnectMsg(r.outcome.exc))
    ELSE IF JobEscapes(path, r) # NoExc THEN map
    ELSE RecordFailure(map, id, ProcessingMsg(path, r.outcome.exc))

PathExistsAlways(path, fs) == TRUE

\* Path(video_path).exists()
PathExists(path, fs) == path \in fs

\* POST /process-video, lines 94-199: the job is enqueued, nothing is stored
PostProcessVideo ==
    /\ Len(jobs) < MaxTasks
    /\ \E path \in VideoPaths :
          jobs' = Append(jobs, [id |-> IdPool[Len(jobs) + 1], video_path |-> path,
                                pc |-> "queued", path_missing |-> FALSE,
                                mcp_called |-> FALSE, mcp_error |-> NoExc,
                                escaped |-> NoExc, rw |-> NoRetry])
    /\ response' = NoResponse
    /\ UNCHANGED <<bg_task_states, files>>

\* background_process_video up to its first await, lines 101-122
BgStart(j) ==
    /\ jobs[j].pc = "queued"
    /\ LET id == jobs[j].id
           path == jobs[j].video_path
           started == Put(bg_task_states, TaskKey(id), IN_PROGRESS)
       IN IF ~PathExists(path, files)
          THEN /\ bg_task_states' = RecordFailure(started, id, MissingFileMsg(path))
               /\ jobs' = [jobs EXCEPT ![j].pc = "done", ![j].path_missing = path \notin files]
          ELSE /\ bg_task_states' = started
               /\ jobs' = [jobs EXCEPT ![j].pc = "running",
                                       ![j].path_missing = path \notin files,
                                       ![j].rw = RetryStart(DefaultMaxRetries, DefaultInitialDelay,
                                                            DefaultMaxDelay, DefaultMaxTotalTimeout, TRUE)]
    /\ response' = NoResponse
    /\ UNCHANGED files

\* the job resumes inside retry_mcp_connection and runs to its next await
\* or, when the wrapper ends, to the end of the job
BgStep(j, r, called) ==
    /\ jobs' = [jobs EXCEPT ![j].rw = IF r.pc = "done" THEN NoRetry ELSE r,
                            ![j].mcp_called = @ \/ called,
                            ![j].mcp_error = IF r.pc = "done" /\ r.outcome.type = "raise"
                                             THEN r.outcome.exc ELSE @,
                            ![j].escaped = IF r.pc = "done"
                                           THEN JobEscapes(jobs[j].video_path, r) ELSE @,
                            ![j].pc = IF r.pc = "done" THEN "done" ELSE @]
    /\ bg_task_states' = IF r.pc = "done"
                         THEN AfterRetry(bg_task_states, jobs[j].id, jobs[j].video_path, r)
                         ELSE bg_task_states
    /\ response' = NoResponse
    /\ UNCHANGED files

ApiDurations == {0, DefaultMaxTotalTimeout}

\* what mcp_client.call_tool("process_video", ...) may do
ApiOpResults ==
    { NoExc,
      Exc("ConnectionError", << <<"Connection", "refused">> >>, 1),
      Exc("RuntimeError", << <<"Connection", "closed">> >>, 1),
      Exc("ToolError", << <<"Video", "processing", "failed">> >>, 1),
      Exc("ToolError", << <<"Bad", "response", "{'detail':'busy'}">> >>, 1) }

BgProbe(j) ==
    /\ jobs[j].pc = "running"
    /\ jobs[j].rw.pc = "probe"
    /\ \E dur \in ApiDurations, is_reachable \in {"yes", "no", "raised"},
          lookup \in {"resolved", "gaierror", "raised"} :
           BgStep(j, Probe(jobs[j].rw, dur, is_reachable, lookup), FALSE)

\* one pass of the loop and, after a retryable failure, the sleep before the
\* next pass: the job is suspended in asyncio.sleep and changes nothing
RunAttempt(r, dur, res) ==
    LET r1 == Attempt(r, dur, res) IN
    IF r1.pc = "sleeping" THEN Sleep(r1, 0) ELSE r1

BgAttempt(j) ==
    /\ jobs[j].pc = "running"
    /\ jobs[j].rw.pc = "loop"
    /\ IF Invokes(jobs[j].rw)
       THEN \E dur \in ApiDurations, res \in ApiOpResults :
               BgStep(j, RunAttempt(jobs[j].rw, dur, res), TRUE)
       ELSE BgStep(j, RunAttempt(jobs[j].rw, 0, NoExc), FALSE)

\* GET /task-status/{task_id}, lines 79-86
QueryKeys ==
    {TaskKey(IdPool[i]) : i \in 1..MaxTasks}
        \cup {ErrorKey(TaskKey(IdPool[i])) : i \in 1..MaxTasks}
        \cup {<<"unknown">>}

\* the handler reads the map and changes nothing; its response for task_id
\* is TaskStatusResponse(bg_task_states, task_id)
GetTaskStatus ==
    /\ \E task_id \in QueryKeys : response' = [asked |-> TRUE, task_id |-> task_id]
    /\ UNCHANGED <<bg_task_states, jobs, files>>

RetryIdle ==
    /\ rw = NoRetry
    /\ probeLog = NoProbe
    /\ calls = 0
    /\ firstRes = NoCall
    /\ lastRes = NoCall
    /\ lastStart = 0
    /\ sleeps = 0
    /\ lastSleep = NoSleep
    /\ slept = 0

ApiInit == RetryIdle /\ ApiIdle /\ RestIdle

ApiNext ==
    \/ PostProcessVideo /\ UNCHANGED <<retryVars, restVars>>
    \/ GetTaskStatus /\ UNCHANGED <<retryVars, restVars>>
    \/ \E j \in 1..Len(jobs) : BgStart(j) /\ UNCHANGED <<retryVars, restVars>>
    \/ \E j \in 1..Len(jobs) : BgProbe(j) /\ UNCHANGED <<retryVars, restVars>>
    \/ \E j \in 1..Len(jobs) : BgAttempt(j) /\ UNCHANGED <<retryVars, restVars>>

SpecApi == ApiInit /\ [][ApiNext]_vars

\* the event loop runs every task that is ready: a background job that can
\* take a step eventually takes it
JobStep(j) ==
    /\ j <= Len(jobs)
    /\ (BgStart(j) \/ BgProbe(j) \/ BgAttempt(j))
    /\ UNCHANGED <<retryVars, restVars>>

SpecApiFair == SpecApi /\ \A j \in 1..MaxTasks : WF_vars(JobStep(j))

(***************************************************************************)
(* Properties of retry_mcp_connection.                                      *)
(***************************************************************************)
RetryReturned == rw.pc = "done" /\ rw.outcome.type = "return"
RetryRaised == rw.pc = "done" /\ rw.outcome.type = "raise"
IsFailure(res) == res # NoCall /\ res # NoExc

\* an error that is no network/OS-level kind and none of whose texts holds
\* a connection-failure pattern the classification looks for
MatchesNoPattern(e) ==
    /\ IsFailure(e)
    /\ e.kind \notin {"OSError", "ConnectionError", "TimeoutError"}
    /\ \A t \in {LowerText(Str(e))} \cup {LowerText(e.args[i]) : i \in 1..Len(e.args)} :
          /\ ~Contains(t, <<"connection">>)
          /\ ~Contains(t, <<"failed", "to", "connect">>)
          /\ ~Contains(t, <<"name", "or", "service", "not", "known">>)
          /\ ~Contains(t, <<"errno", "-2">>)
          /\ ~Contains(t, <<"errno", "111">>)
          /\ ~Contains(t, <<"errno", "61">>)

BareConnection(e) ==
    /\ e \notin {NoCall, NoExc}
    /\ ~MessageMatches(e)
    /\ Contains(LowerText(Str(e)), <<"connection">>)

\* C25: an error that is not of a network/OS-level kind and whose message
\* contains the word connection without refused, failed or error, and
\* matches no other listed pattern, is raised after the first attempt: the
\* operation was called once and the wrapper did not sleep.
C25_BareConnectionNotRetried ==
    BareConnection(firstRes) =>
        /\ calls = 1
        /\ sleeps = 0
        /\ rw.pc = "done"
        /\ rw.outcome = [type |-> "raise", exc |-> firstRes]

\* the delay variable before the i-th sleep: initial_delay, then
\* min(delay * backoff_factor, max_delay) after each sleep
RECURSIVE BackoffDelay(_, _, _)
BackoffDelay(i, initial_delay, max_delay) ==
    IF i <= 1 THEN initial_delay
    ELSE LET d == (BackoffDelay(i - 1, initial_delay, max_delay) * 3) \div 2 IN
         IF d < max_delay THEN d ELSE max_delay

\* the wrapper gave up although fewer than max_retries classified failures
\* happened and the budget is not exhausted
GaveUpEarly ==
    /\ RetryRaised
    /\ IsFailure(lastRes)
    /\ IsConnectionError(lastRes)
    /\ calls < rw.max_retries
    /\ rw.now < rw.max_total_timeout

\* what holds of a call that returned after K failures, and of every sleep
BackoffSchedule ==
    /\ RetryReturned => /\ lastRes = NoExc
                        /\ sleeps = calls - 1
                        /\ rw.now >= slept
    /\ sleeps >= 1 =>
          /\ lastSleep.delay = BackoffDelay(sleeps, rw.initial_delay, rw.max_delay)
          /\ lastSleep.dur =
                 Min(lastSleep.delay, rw.max_total_timeout - lastSleep.at)

\* C2 as claimed: an operation that fails K < max_retries times with a
\* classified connection error and would then succeed is called a (K+1)-th
\* time while the budget lasts, and the call returns after K+1 calls and K
\* sleeps that follow the backoff schedule.
C2_Original == ~GaveUpEarly /\ BackoffSchedule

\* C2 (amended): the same, provided the probe did not set the permanent
\* DNS-failure flag; every sleep is min(current_delay, time_remaining), the
\* delay follows the capped backoff, and a call that returns has made K+1
\* calls and K sleeps and has taken at least the sum of the sleeps.
C2_BackoffUnlessDnsFailed == (~rw.dns_failed => ~GaveUpEarly) /\ BackoffSchedule

C2_Witness ==
    /\ RetryReturned
    /\ ~rw.dns_failed
    /\ sleeps >= 3
    /\ sleeps < rw.max_retries
    /\ lastSleep.delay = rw.max_delay
    /\ lastSleep.dur = rw.max_delay

\* C3: the operation is called at most max_retries + 1 times, and the
\* wrapper ends by returning the value the operation returned or by raising
\* an exception, never otherwise.
C3_AtMostMaxRetriesPlusOneCalls ==
    /\ calls <= rw.max_retries + 1
    /\ rw.pc = "done" =>
          \/ rw.outcome.type = "return" /\ lastRes = NoExc
          \/ rw.outcome.type = "raise" /\ rw.outcome.exc # NoExc

C3_Witness == RetryRaised /\ calls = DefaultMaxRetries + 1

\* C4: no call of the operation starts with the elapsed time at or beyond
\* max_total_timeout, and no sleep is asked to end after the deadline.
C4_NothingStartsPastBudget ==
    /\ calls >= 1 => lastStart < rw.max_total_timeout
    /\ sleeps >= 1 => lastSleep.at + lastSleep.dur <= rw.max_total_timeout

C4_Witness ==
    /\ sleeps >= 1
    /\ lastSleep.dur < lastSleep.delay
    /\ lastSleep.at + lastSleep.dur = rw.max_total_timeout

\* C5: when the wrapper gives up after at least one failed attempt it raises
\* the last error the operation raised; it raises a timeout error only when
\* no attempt has failed.
C5_RaisesLastError ==
    /\ (RetryRaised /\ IsFailure(lastRes)) => rw.outcome.exc = lastRes
    /\ (RetryRaised /\ rw.outcome.exc = TimeoutExc) => ~IsFailure(lastRes)

\* C6: with the permanent DNS-failure flag set the operation is called at
\* most once and the wrapper never sleeps.
C6_DnsFailureNeverSleeps == rw.dns_failed => (calls <= 1 /\ sleeps = 0)

\* C7: whatever the probe finds and however long it takes, the wrapper
\* calls the operation at least once before it ends.
C7_ProbeNeverGates == (rw.pc = "done" /\ probeLog.ran) => calls >= 1

(***************************************************************************)
(* Properties of the task-state map.                                        *)
(***************************************************************************)
\* the id was returned by POST /process-video
Issued(task_id) == \E j \in 1..Len(jobs) : TaskKey(jobs[j].id) = task_id

\* what GET /task-status answers for task_id in the current state
Answer(task_id) == TaskStatusResponse(bg_task_states, task_id)

\* C8: once POST /process-video has returned a task id, GET /task-status for
\* it reports pending, in_progress, completed or failed, never not_found,
\* and it reports pending until the background job begins.
C8_CreatedAsPending ==
    \A j \in 1..Len(jobs) :
        (response.asked /\ response.task_id = TaskKey(jobs[j].id)) =>
            /\ Answer(response.task_id).status \in {PENDING, IN_PROGRESS, COMPLETED, FAILED}
            /\ jobs[j].pc = "queued" => Answer(response.task_id).status = PENDING

\* C9: a job whose path does not exist makes no call to the protocol server,
\* ends with status failed and a non-empty error recorded for its id, and
\* its status is never completed.
C9_MissingPathFails ==
    \A j \in 1..Len(jobs) :
        LET answer == Answer(TaskKey(jobs[j].id)) IN
        /\ jobs[j].pc = "queued" => (~jobs[j].mcp_called /\ answer.status # COMPLETED)
        /\ (jobs[j].pc # "queued" /\ jobs[j].path_missing) =>
              /\ jobs[j].pc = "done"
              /\ ~jobs[j].mcp_called
              /\ answer.status = FAILED
              /\ answer.has_error
              /\ Len(answer.error) > 0

C9_Witness ==
    \E j \in 1..Len(jobs) :
        /\ jobs[j].path_missing
        /\ jobs[j].pc = "done"
        /\ response.asked
        /\ response.task_id = TaskKey(jobs[j].id)
        /\ Answer(response.task_id).status = FAILED

\* C10: for a task id that POST /process-video never returned, GET
\* /task-status answers not_found without an error field.
C10_UnknownIdNotFound ==
    (response.asked /\ ~Issued(response.task_id)) =>
        /\ Answer(response.task_id).status = NOT_FOUND
        /\ ~Answer(response.task_id).has_error

\* the entries of the map that a step changes
ChangedKeys ==
    {k \in DOMAIN bg_task_states \cup DOMAIN bg_task_states' :
        Get(bg_task_states, k, <<>>) # Get(bg_task_states', k, <<>>)}
JobKeys(j) == {TaskKey(jobs[j].id), ErrorKey(TaskKey(jobs[j].id))}

\* C11: whatever exception the protocol call of a background job ends with,
\* no exception leaves the job, the job ends with status failed and a
\* non-empty error recorded for its id, and the step that ends the job
\* changes no entry of another task id.
C11_JobFailureIsRecorded ==
    /\ [](\A j \in 1..Len(jobs) :
            (jobs[j].pc = "done" /\ jobs[j].mcp_error # NoExc) =>
                /\ jobs[j].escaped = NoExc
                /\ Answer(TaskKey(jobs[j].id)).status = FAILED
                /\ Len(Answer(TaskKey(jobs[j].id)).error) > 0)
    /\ [][\A j \in 1..Len(jobs) :
            (jobs[j].pc = "running" /\ jobs'[j].pc = "done") => ChangedKeys \subseteq JobKeys(j)]_vars

\* C27: whenever a status reader runs, for whatever id, its response never
\* has status failed without an error and never has an error with a status
\* other than failed.
C27_ReaderSeesFailedWithError ==
    \A task_id \in QueryKeys :
        LET r == Answer(task_id) IN
        /\ r.status = FAILED => r.has_error
        /\ r.has_error => r.status = FAILED

C27_Witness ==
    /\ response.asked
    /\ Answer(response.task_id).status = FAILED
    /\ Answer(response.task_id).has_error
    /\ \E j \in 1..Len(jobs) : jobs[j].pc = "running" /\ jobs[j].mcp_called

Terminal == {COMPLETED, FAILED}
Stored(map, i) == Get(map, TaskKey(IdPool[i]), NOT_FOUND)

\* C28: under fair scheduling every task enqueued by POST /process-video
\* eventually has a terminal status, completed or failed.
C28_EveryTaskTerminates ==
    \A i \in 1..MaxTasks :
        (Len(jobs) >= i) ~> (Stored(bg_task_states, i) \in Terminal)

\* C29: a terminal status stored for a task id is never changed, and the
\* value stored for a task id only goes from nothing to in_progress and
\* from there to completed or failed (a job that fails before its first
\* await stores in_progress and failed in one step).
C29_TerminalIsAbsorbing ==
    [][\A i \in 1..MaxTasks :
          LET old == Stored(bg_task_states, i)
              new == Stored(bg_task_states', i)
          IN /\ old \in Terminal => new = old
             /\ old = IN_PROGRESS => new \in {IN_PROGRESS} \cup Terminal
             /\ old = NOT_FOUND => new \in {NOT_FOUND, IN_PROGRESS, FAILED}
             /\ old \in {NOT_FOUND, IN_PROGRESS} \cup Terminal]_vars

C29_Witness ==
    /\ Len(jobs) = MaxTasks
    /\ Stored(bg_task_states, 1) = COMPLETED
    /\ Stored(bg_task_states, 2) = FAILED
    /\ jobs[2].mcp_called

(***************************************************************************)
(* The conversational memory store (elix_api/agent/memory.py) and the       *)
(* pixeltable catalog it keeps its table in.  A name is a sequence of       *)
(* characters.  A directory of the catalog holds the table `memory` (id 0:  *)
(* no table); a handle is the id of the table it was obtained for, and a    *)
(* call through the handle of a dropped table raises pixeltable's Error.    *)
(***************************************************************************)
MaxRecords == 3
MaxTables == 2

AgentNames == {<<"a", "-", "b">>, <<"a", ".", "b">>, <<"a", "c">>}
RecordPool ==
    { [message_id |-> "m1", role |-> "user", content |-> "hello"],
      [message_id |-> "m2", role |-> "assistant", content |-> "goal"] }

\* str.replace(old, new) for single characters
Replace(name, old, new) == [i \in 1..Len(name) |-> IF name[i] = old THEN new ELSE name[i]]

\* line 17
Directory(name) == Replace(Replace(name, "-", "_"), ".", "_")

NoTable == [id |-> 0, rows |-> <<>>]

\* pxt.create_dir(path, if_exists="replace_force"): an existing directory is
\* dropped with its contents and an empty one takes its place
CreateDir(cat, path) == [cat EXCEPT !.dirs = Put(cat.dirs, path, NoTable)]

\* pxt.create_table(path, schema, if_exists="ignore")
CreateTable(cat, path) ==
    IF cat.dirs[path].id # 0 THEN cat
    ELSE [cat EXCEPT !.dirs = Put(cat.dirs, path, [id |-> cat.created + 1, rows |-> <<>>]),
                     !.created = cat.created + 1]

\* pxt.get_table(path)
GetTable(cat, path) == cat.dirs[path].id

\* pxt.drop_dir(path, if_not_exists="ignore", force=True)
DropDir(cat, path) == [cat EXCEPT !.dirs = [d \in DOMAIN cat.dirs \ {path} |-> cat.dirs[d]]]

\* the table behind the handle still exists
Live(cat, m) ==
    /\ m.directory \in DOMAIN cat.dirs
    /\ m._memory_table # 0
    /\ cat.dirs[m.directory].id = m._memory_table

\* Memory.__init__, lines 15-22
MemoryNew(cat, name) ==
    LET directory == Directory(name)
        cat1 == CreateTable(CreateDir(cat, directory), directory)
    IN [cat |-> cat1,
        memory |-> [directory |-> directory, _memory_table |-> GetTable(cat1, directory)]]

\* seq[start:] of Python for any integer start
SliceFrom(seq, start) ==
    LET n == Len(seq)
        from == IF start < 0 THEN (IF n + start < 0 THEN 0 ELSE n + start)
                ELSE (IF start > n THEN n ELSE start)
    IN SubSeq(seq, from + 1, n)

Returned(op, arg, value) == [op |-> op, arg |-> arg, raised |-> "None", value |-> value]
Raised(op, arg, kind) == [op |-> op, arg |-> arg, raised |-> kind, value |-> <<>>]

\* Memory.get_all, lines 41-42
GetAll(cat, m) ==
    IF Live(cat, m) THEN Returned("get_all", <<>>, cat.dirs[m.directory].rows)
    ELSE Raised("get_all", <<>>, "Error")

\* Memory.get_latest, lines 44-45: self.get_all()[-n:]
GetLatest(cat, m, n) ==
    LET all == GetAll(cat, m) IN
    IF all.raised # "None" THEN Raised("get_latest", <<n>>, all.raised)
    ELSE Returned("get_latest", <<n>>, SliceFrom(all.value, 0 - n))

\* Memory.get_by_message_id, lines 47-48: the first match, IndexError if none
GetByMessageId(cat, m, message_id) ==
    IF ~Live(cat, m) THEN Raised("get_by_message_id", <<message_id>>, "Error")
    ELSE LET rows == cat.dirs[m.directory].rows
             hits == {k \in 1..Len(rows) : rows[k].message_id = message_id}
         IN IF hits = {} THEN Raised("get_by_message_id", <<message_id>>, "IndexError")
            ELSE Returned("get_by_message_id", <<message_id>>,
                          <<rows[CHOOSE k \in hits : \A h \in hits : k <= h]>>)

\* Memory.insert, lines 38-39
Insert(cat, m, memory_record) ==
    IF Live(cat, m)
    THEN [cat |-> [cat EXCEPT !.dirs[m.directory].rows = Append(@, memory_record)],
          call |-> Returned("insert", <<memory_record>>, <<>>)]
    ELSE [cat |-> cat, call |-> Raised("insert", <<memory_record>>, "Error")]

\* Memory.reset_memory, lines 34-36
ResetMemory(cat, m) == DropDir(cat, m.directory)

MemInit ==
    \E name \in AgentNames :
        /\ pxt = MemoryNew(EmptyCatalog, name).cat
        /\ memory = MemoryNew(EmptyCatalog, name).memory
        /\ memCall = NoMemCall
        /\ memHist = NoHist

\* a new Memory instance (a new agent, or the service starting again)
MemConstruct ==
    /\ pxt.created < MaxTables
    /\ \E name \in AgentNames :
          /\ pxt' = MemoryNew(pxt, name).cat
          /\ memory' = MemoryNew(pxt, name).memory
    /\ memCall' = NoMemCall
    /\ memHist' = NoHist

MemInsert ==
    /\ Len(memHist.inserted) < MaxRecords
    /\ \E memory_record \in RecordPool :
          LET res == Insert(pxt, memory, memory_record) IN
          /\ pxt' = res.cat
          /\ memCall' = res.call
          /\ memHist' = IF res.call.raised = "None"
                        THEN [memHist EXCEPT !.inserted = Append(@, memory_record)]
                        ELSE memHist
    /\ UNCHANGED memory

MemGetAll ==
    /\ memCall' = GetAll(pxt, memory)
    /\ UNCHANGED <<pxt, memory, memHist>>

MemGetLatest ==
    /\ \E n \in 0..(MaxRecords + 1) : memCall' = GetLatest(pxt, memory, n)
    /\ UNCHANGED <<pxt, memory, memHist>>

MemGetByMessageId ==
    /\ \E message_id \in {"m1", "m2"} : memCall' = GetByMessageId(pxt, memory, message_id)
    /\ UNCHANGED <<pxt, memory, memHist>>

MemResetMemory ==
    /\ pxt' = ResetMemory(pxt, memory)
    /\ memCall' = Returned("reset_memory", <<>>, <<>>)
    /\ memHist' = [reset |-> TRUE, inserted |-> <<>>]
    /\ UNCHANGED memory

MemoryInit == RetryIdle /\ ApiIdle /\ AgentIdle /\ MediaIdle /\ ToolsIdle /\ ConfigIdle /\ ChatsIdle /\ MemInit

MemoryNext ==
    \/ MemConstruct /\ UNCHANGED exceptMemVars
    \/ MemInsert /\ UNCHANGED exceptMemVars
    \/ MemGetAll /\ UNCHANGED exceptMemVars
    \/ MemGetLatest /\ UNCHANGED exceptMemVars
    \/ MemGetByMessageId /\ UNCHANGED exceptMemVars
    \/ MemResetMemory /\ UNCHANGED exceptMemVars

SpecMemory == MemoryInit /\ [][MemoryNext]_vars

(***************************************************************************)
(* Properties of the memory store.                                          *)
(***************************************************************************)
\* the last k elements of seq (k <= Len(seq))
LastK(seq, k) == [i \in 1..k |-> seq[Len(seq) - k + i]]

\* C12: on an instance that was not reset, with N records inserted,
\* get_latest(k) for k >= 0 returns exactly the last min(k, N) of them in
\* insertion order, the empty sequence for k = 0.
C12_GetLatestReturnsLastK ==
    (memCall.op = "get_latest" /\ ~memHist.reset) =>
        /\ memCall.raised = "None"
        /\ memCall.value = LastK(memHist.inserted, Min(memCall.arg[1], Len(memHist.inserted)))

\* C13: after reset_memory(), get_all() on the same instance returns the
\* empty sequence, an insert succeeds, and get_all() then returns exactly
\* the records inserted since the reset.
C13_UsableAfterReset ==
    memHist.reset =>
        /\ memCall.op \in {"get_all", "insert"} => memCall.raised = "None"
        /\ memCall.op = "get_all" => memCall.value = memHist.inserted

(***************************************************************************)
(* The agent (elix_api/agent/base_agent.py, groq/groq_agent.py) and the     *)
(* POST /chat handler (elix_api/api.py).  One operation runs at a time; it   *)
(* advances by one protocol call per step, through the retry wrappers the    *)
(* code puts around it:                                                      *)
(*   setup:  "probe" -> "connect" -> "fetch" (1..4) -> "done" or "chat"      *)
(*   discover_tools, call_tool:  "run" -> "done"                             *)
(***************************************************************************)
MaxFaults == 2

ToolNames == {"process_video", "get_video_clip_from_user_query", "ask_question_about_video"}
Tool(name) == [name |-> name, description |-> <<"tool", name>>]

\* what list_tools may return, and the disable-lists an agent may be given
ServerToolLists ==
    { <<>>,
      <<Tool("process_video"), Tool("get_video_clip_from_user_query"),
        Tool("ask_question_about_video")>>,
      <<Tool("ask_question_about_video"), Tool("process_video")>> }
DisableLists ==
    { <<>>, <<"process_video">>, <<"ask_question_about_video", "process_video">> }

\* x in list
InList(x, list) == \E k \in 1..Len(list) : list[k] = x

FilterNothing(tools, disable_tools) == tools

\* filter_active_tools, lines 70-74
FilterActiveTools(tools, disable_tools) ==
    SelectSeq(tools, LAMBDA tool : ~InList(tool.name, disable_tools))

\* _discover_tools, lines 90-101, for what list_tools returned
DiscoverTools(listed, disable_tools) ==
    IF Len(listed) = 0 THEN <<>> ELSE FilterActiveTools(listed, disable_tools)

\* the tool-definition adapter: the provider's function declaration
TransformToolDefinition(tool) ==
    [type |-> "function", function |-> [name |-> tool.name, description |-> tool.description]]

\* GroqAgent._get_tools, lines 34-36, for what discover_tools returned
GetTools(discovered) == [k \in 1..Len(discovered) |-> TransformToolDefinition(discovered[k])]

\* mcp_prompt.messages[0].content.text of the prompt the server publishes
PromptText(name) == <<"prompt", "of", name>>

\* _setup_with_retry, lines 36-39: the assignment after the fetch returned
Assign(a, fetch, srv) ==
    IF fetch = 1 THEN [a EXCEPT !.tools = Some(GetTools(DiscoverTools(srv.tools, a.disable_tools)))]
    ELSE IF fetch = 2 THEN [a EXCEPT !.routing_system_prompt = Some(PromptText("routing_system_prompt"))]
    ELSE IF fetch = 3 THEN [a EXCEPT !.tool_use_system_prompt = Some(PromptText("tool_use_system_prompt"))]
    ELSE [a EXCEPT !.general_system_prompt = Some(PromptText("general_system_prompt"))]

SetupNeverSkips(a) == FALSE

\* setup, lines 30-31
SetupSkips(a) == a._is_setup

\* retry_mcp_connection with its default arguments
DefaultRetry(has_url) ==
    RetryStart(DefaultMaxRetries, DefaultInitialDelay, DefaultMaxDelay,
               DefaultMaxTotalTimeout, has_url)

\* what entering `async with self.mcp_client` and a protocol call may do
\* while the service may still fail
ConnectResults(srv) ==
    {NoExc} \cup
    IF srv.faults > 0
    THEN {Exc("RuntimeError", << <<"Client", "failed", "to", "connect">> >>, 1)}
    ELSE {}
ProtocolResults(srv) ==
    {NoExc} \cup
    IF srv.faults > 0
    THEN { Exc("ConnectionError", << <<"Connection", "refused">> >>, 1),
           Exc("ToolError", << <<"Tool", "failed">> >>, 1) }
    ELSE {}

\* the service after a call with result res
Served(srv, res) == IF res = NoExc THEN srv ELSE [srv EXCEPT !.faults = @ - 1]

\* what call_tool gets back: no content, or one text item
CallResponses == {<<>>, << <<"clip", "ready">> >>}
CallNames == ToolNames \cup {"unknown_tool"}

\* what agent.chat may raise
ChatErrors ==
    { Exc("RuntimeError", << <<"LLM", "unavailable">> >>, 1),
      Exc("ValueError", << <<"Bad", "response", "{'detail':'busy'}">> >>, 1) }

ReturnValue(value) == [type |-> "return", exc |-> NoExc, value |-> value]
RaiseExc(e) == [type |-> "raise", exc |-> e, value |-> <<>>]

\* the responses of POST /chat: the model returned by the handler, the
\* HTTPException of api.py line 221, the server's answer to an exception
\* that leaves the handler
ChatResponse == [status |-> 200, body |-> <<"response">>]
HttpError500(e) == [status |-> 500, body |-> <<"detail:">> \o Str(e)]
Unhandled500 == [status |-> 500, body |-> <<"Internal", "Server", "Error">>]

\* setup() has returned in operation o
SetupReturned(o) ==
    /\ o.handler \in {"setup", "chat"}
    /\ \/ o.pc = "chat"
       \/ o.pc = "done" /\ o.handler = "setup" /\ o.result.type = "return"

\* setup() has raised in operation o
SetupRaised(o) ==
    /\ o.handler \in {"setup", "chat"}
    /\ o.pc = "done"
    /\ o.result.type = "raise"
    /\ o.fetch = 0

\* lines 41-42 and api.py lines 213-216: the wrapper around
\* _setup_with_retry has run one pass, which took dur ticks and returned
\* (res = NoExc) or raised res
AfterSetupPass(o, dur, res) ==
    LET outer1 == RunAttempt(o.outer, dur, res)
        rest == [o EXCEPT !.outer = NoRetry, !.inner = NoRetry, !.fetch = 0, !.elapsed = 0]
    IN IF outer1.pc # "done"
       THEN [rest EXCEPT !.outer = outer1, !.pc = "connect"]
       ELSE IF outer1.outcome.type = "return"
       THEN IF o.handler = "chat" THEN [rest EXCEPT !.pc = "chat"]
            ELSE [rest EXCEPT !.pc = "done", !.result = ReturnValue(<<>>)]
       ELSE [rest EXCEPT !.pc = "done", !.result = RaiseExc(outer1.outcome.exc)]

FlagAlwaysSet(a, o1) == [a EXCEPT !._is_setup = TRUE]

\* the state an operation of setup leaves: the flag of line 42, the
\* response to a setup() that raised inside POST /chat
AgentAfter(a, o1) == IF SetupReturned(o1) THEN [a EXCEPT !._is_setup = TRUE] ELSE a
HttpAfter(o1) ==
    IF o1.handler = "chat" /\ SetupRaised(o1) THEN Unhandled500 ELSE NoHttp
LogAfter(o1) == [agentLog EXCEPT !.setup_done = @ \/ SetupReturned(o1)]

AgentInit ==
    /\ \E disable_tools \in DisableLists : agent = NewAgent(disable_tools)
    /\ \E tools \in ServerToolLists, faults \in 0..MaxFaults :
          server = [tools |-> tools, faults |-> faults]
    /\ agentOp = NoOp
    /\ agentLog = NoLog
    /\ http = NoHttp

\* agent.setup() is called, by itself or as the first step of POST /chat
AgentSetup ==
    /\ agentOp.pc \in {"idle", "done"}
    /\ \E handler \in {"setup", "chat"} :
          agentOp' = IF SetupSkips(agent)
                     THEN IF handler = "chat"
                          THEN [NoOp EXCEPT !.handler = handler, !.pc = "chat"]
                          ELSE [NoOp EXCEPT !.handler = handler, !.pc = "done",
                                            !.result = ReturnValue(<<>>)]
                     ELSE [NoOp EXCEPT !.handler = handler, !.pc = "probe",
                                       !.outer = DefaultRetry(TRUE)]
    /\ http' = NoHttp
    /\ UNCHANGED <<agent, server, agentLog>>

\* the reachability probe of the wrapper around _setup_with_retry
AgentProbe ==
    /\ agentOp.pc = "probe"
    /\ \E is_reachable \in {"yes", "no"}, lookup \in {"resolved", "gaierror"} :
          agentOp' = [agentOp EXCEPT !.outer = Probe(@, 0, is_reachable, lookup),
                                     !.pc = "connect"]
    /\ UNCHANGED <<agent, server, agentLog, http>>

\* one pass of that wrapper begins: line 35 opens the connection
AgentConnect ==
    /\ agentOp.pc = "connect"
    /\ IF Invokes(agentOp.outer)
       THEN \E res \in ConnectResults(server) :
               /\ agentOp' = IF res = NoExc
                             THEN [agentOp EXCEPT !.pc = "fetch", !.fetch = 1, !.elapsed = 0,
                                                  !.inner = DefaultRetry(FALSE)]
                             ELSE AfterSetupPass(agentOp, 0, res)
               /\ server' = Served(server, res)
       ELSE /\ agentOp' = AfterSetupPass(agentOp, 0, NoExc)
            /\ UNCHANGED server
    /\ agent' = AgentAfter(agent, agentOp')
    /\ http' = HttpAfter(agentOp')
    /\ agentLog' = LogAfter(agentOp')

\* the fetch in progress (1: list_tools, 2-4: get_prompt) has run one pass
\* of its own wrapper, which left that wrapper as inner1
AfterFetchPass(o, inner1) ==
    IF inner1.pc # "done" THEN [o EXCEPT !.inner = inner1]
    ELSE IF inner1.outcome.type = "raise"
    THEN AfterSetupPass(o, o.elapsed + inner1.now, inner1.outcome.exc)
    ELSE IF o.fetch = 4 THEN AfterSetupPass(o, o.elapsed + inner1.now, NoExc)
    ELSE [o EXCEPT !.fetch = @ + 1, !.elapsed = @ + inner1.now, !.inner = DefaultRetry(FALSE)]

\* the record of operation o after a pass of the wrapper of its fetch:
\* `tries` counts the protocol calls of each fetch, `all_failed` says that
\* each of them raised an error the wrapper retries
Counted(o, invoked, res) ==
    IF invoked
    THEN [o EXCEPT !.called = TRUE, !.tries[o.fetch] = @ + 1,
                   !.all_failed = @ /\ res # NoExc /\ IsConnectionError(res)]
    ELSE o

FetchReturned(inner1) == inner1.pc = "done" /\ inner1.outcome.type = "return"

\* lines 36-39: one protocol call of the fetch in progress
AgentFetch ==
    /\ agentOp.pc = "fetch"
    /\ \E res \in ProtocolResults(server) :
          LET invoked == Invokes(agentOp.inner)
              inner1 == RunAttempt(agentOp.inner, 0, IF invoked THEN res ELSE NoExc)
              o1 == AfterFetchPass(Counted(agentOp, invoked, res), inner1)
              a1 == IF FetchReturned(inner1) THEN Assign(agent, agentOp.fetch, server) ELSE agent
          IN /\ agentOp' = o1
             /\ agent' = AgentAfter(a1, o1)
             /\ http' = HttpAfter(o1)
             /\ agentLog' = LogAfter(o1)
             /\ server' = IF invoked THEN Served(server, res) ELSE server

\* agent.discover_tools() or agent.call_tool(name, args) is called
AgentCall ==
    /\ agentOp.pc \in {"idle", "done"}
    /\ \/ agentOp' = [NoOp EXCEPT !.handler = "discover_tools", !.pc = "run",
                                  !.inner = DefaultRetry(FALSE)]
       \/ \E function_name \in CallNames :
             agentOp' = [NoOp EXCEPT !.handler = "call_tool", !.name = function_name,
                                     !.pc = "run", !.inner = DefaultRetry(FALSE)]
    /\ http' = NoHttp
    /\ UNCHANGED <<agent, server, agentLog>>

\* call_tool, line 120
ResponseText(mcp_response) == IF Len(mcp_response) > 0 THEN mcp_response[1] ELSE <<>>

\* what the operation returns: discover_tools lines 92-101, call_tool
\* lines 119-124
RunValue(o, a, srv, mcp_response) ==
    IF o.handler = "discover_tools" THEN DiscoverTools(srv.tools, a.disable_tools)
    ELSE ResponseText(mcp_response)

\* what the operation raises when its wrapper raised e: discover_tools
\* lines 105-110 re-raise e; call_tool lines 128-130 log with exc_info=True
\* and re-raise
RunRaises(o, e) ==
    IF o.handler = "call_tool"
       /\ LogRaises(<<"MCP", "call_tool", "raised", "exception", "for", o.name, ":">> \o Str(e), TRUE)
    THEN Exc("KeyError", << <<"'detail'">> >>, e.id)
    ELSE e

\* the request reached the media service
Reached(res) == res = NoExc \/ ~IsConnectionError(res)

\* one protocol call of discover_tools (list_tools) or call_tool
AgentRun ==
    /\ agentOp.pc = "run"
    /\ \E res \in ProtocolResults(server), mcp_response \in CallResponses :
          LET invoked == Invokes(agentOp.inner)
              inner1 == RunAttempt(agentOp.inner, 0, IF invoked THEN res ELSE NoExc)
              o1 == [agentOp EXCEPT !.called = @ \/ invoked]
          IN /\ agentOp' =
                   IF inner1.pc # "done" THEN [o1 EXCEPT !.inner = inner1]
                   ELSE IF inner1.outcome.type = "return"
                   THEN [o1 EXCEPT !.pc = "done", !.inner = NoRetry,
                                   !.result = ReturnValue(RunValue(o1, agent, server, mcp_response))]
                   ELSE [o1 EXCEPT !.pc = "done", !.inner = NoRetry,
                                   !.result = RaiseExc(RunRaises(o1, inner1.outcome.exc))]
             /\ agentLog' =
                   IF agentOp.handler = "call_tool" /\ invoked /\ Reached(res)
                   THEN [agentLog EXCEPT !.called = @ \cup {agentOp.name}]
                   ELSE agentLog
             /\ server' = IF invoked THEN Served(server, res) ELSE server
    /\ UNCHANGED <<agent, http>>

\* POST /chat after setup, api.py lines 216-221: agent.chat returns or raises
AgentChat ==
    /\ agentOp.pc = "chat"
    /\ \E e \in {NoExc} \cup ChatErrors :
          /\ agentOp' = [agentOp EXCEPT !.pc = "done", !.fetch = 5,
                                        !.result = IF e = NoExc THEN ReturnValue(<<>>)
                                                   ELSE RaiseExc(e)]
          /\ http' = IF e = NoExc THEN ChatResponse
                     ELSE IF LogRaises(<<"Error", "in", "chat", "endpoint:">> \o Str(e), TRUE)
                     THEN Unhandled500
                     ELSE HttpError500(e)
    /\ UNCHANGED <<agent, server, agentLog>>

AgentSpecInit == RetryIdle /\ ApiIdle /\ MemIdle /\ MediaIdle /\ ToolsIdle /\ ConfigIdle /\ ChatsIdle /\ AgentInit

AgentNext ==
    \/ AgentSetup /\ UNCHANGED exceptAgentVars
    \/ AgentProbe /\ UNCHANGED exceptAgentVars
    \/ AgentConnect /\ UNCHANGED exceptAgentVars
    \/ AgentFetch /\ UNCHANGED exceptAgentVars
    \/ AgentCall /\ UNCHANGED exceptAgentVars
    \/ AgentRun /\ UNCHANGED exceptAgentVars
    \/ AgentChat /\ UNCHANGED exceptAgentVars

SpecAgent == AgentSpecInit /\ [][AgentNext]_vars

\* failures the media service and the network may produce during an outage
MaxOutage == 7

\* setup() and POST /chat while the media service keeps failing
OutageInit ==
    /\ \E disable_tools \in DisableLists : agent = NewAgent(disable_tools)
    /\ \E tools \in ServerToolLists : server = [tools |-> tools, faults |-> MaxOutage]
    /\ agentOp = NoOp
    /\ agentLog = NoLog
    /\ http = NoHttp

OutageSpecInit ==
    RetryIdle /\ ApiIdle /\ MemIdle /\ MediaIdle /\ ToolsIdle /\ ConfigIdle /\ ChatsIdle /\ OutageInit

OutageNext ==
    \/ AgentSetup /\ UNCHANGED exceptAgentVars
    \/ AgentProbe /\ UNCHANGED exceptAgentVars
    \/ AgentConnect /\ UNCHANGED exceptAgentVars
    \/ AgentFetch /\ UNCHANGED exceptAgentVars
    \/ AgentChat /\ UNCHANGED exceptAgentVars

SpecOutage == OutageSpecInit /\ [][OutageNext]_vars

(***************************************************************************)
(* Properties of the agent and of POST /chat.                               *)
(***************************************************************************)
\* a step in which setup() is called
SetupCalled == agentOp.pc \in {"idle", "done"} /\ agentOp'.handler \in {"setup", "chat"}

\* C14: once a setup() call has completed successfully, a later setup()
\* call returns without a protocol call (it never reaches an await) and
\* leaves the tools, the three prompts and the flag as they were.
C14_SetupIdempotent ==
    [][(agentLog.setup_done /\ SetupCalled) =>
           /\ agentOp'.pc \in {"done", "chat"}
           /\ agentOp'.pc = "done" => agentOp'.result.type = "return"
           /\ ~agentOp'.called
           /\ agent' = agent
           /\ server' = server]_vars

C14_Witness ==
    /\ agentLog.setup_done
    /\ agentOp.handler = "setup"
    /\ agentOp.pc = "done"
    /\ agentOp.result.type = "return"
    /\ ~agentOp.called
    /\ agent.tools # None
    /\ agent.general_system_prompt # None

Populated(a) ==
    /\ a.tools # None
    /\ a.routing_system_prompt # None
    /\ a.tool_use_system_prompt # None
    /\ a.general_system_prompt # None

\* C26: in every reachable state the setup flag implies that the tools and
\* the three system prompts are populated; when setup() fails the flag is
\* false, and the next setup() call enters the fetch sequence again.
C26_FlagImpliesPopulated ==
    /\ [](agent._is_setup => Populated(agent))
    /\ [](SetupRaised(agentOp) => ~agent._is_setup)
    /\ [][(SetupRaised(agentOp) /\ SetupCalled) =>
             /\ agentOp'.pc = "probe"
             /\ agentOp'.outer = DefaultRetry(TRUE)]_vars

C26_Witness ==
    /\ SetupRaised(agentOp)
    /\ agentOp.called
    /\ agent.tools # None
    /\ agent.routing_system_prompt # None
    /\ agent.general_system_prompt = None
    /\ ~agent._is_setup

\* the tools of T whose name is not in D, in their order in T
RECURSIVE NotDisabled(_, _)
NotDisabled(T, D) ==
    IF Len(T) = 0 THEN <<>>
    ELSE IF \E k \in 1..Len(D) : D[k] = Head(T).name
    THEN NotDisabled(Tail(T), D)
    ELSE <<Head(T)>> \o NotDisabled(Tail(T), D)

\* C15: discover_tools returns exactly the tools of the server's list whose
\* name is not in the disable-list, in their original order (what
\* filter_active_tools returns for that list), and so no disabled tool.
C15_FilterKeepsEnabledInOrder ==
    (agentOp.handler = "discover_tools" /\ agentOp.pc = "done" /\ agentOp.result.type = "return") =>
        /\ agentOp.result.value = NotDisabled(server.tools, agent.disable_tools)
        /\ \A k \in 1..Len(agentOp.result.value) :
              ~InList(agentOp.result.value[k].name, agent.disable_tools)

C15_Witness ==
    /\ agentOp.handler = "discover_tools"
    /\ agentOp.pc = "done"
    /\ agentOp.result.type = "return"
    /\ Len(agent.disable_tools) = 1
    /\ Len(server.tools) = 3
    /\ Len(agentOp.result.value) = 2
    /\ agentOp.result.value[1].name = "get_video_clip_from_user_query"

\* C16: no tool named in the agent's disable-list is ever invoked on the
\* media service by an agent operation (setup, discover_tools, call_tool
\* with any name).
C16_DisabledToolNeverCalled ==
    \A name \in agentLog.called : ~InList(name, agent.disable_tools)

\* C17: when setup() or agent.chat raises while POST /chat is handled, the
\* response has status 500 and its body carries the exception's text.
C17_ChatErrorIs500WithText ==
    (agentOp.handler = "chat" /\ agentOp.pc = "done" /\ agentOp.result.type = "raise") =>
        /\ http.status = 500
        /\ Contains(http.body, Str(agentOp.result.exc))

(***************************************************************************)
(* POST /upload-video and GET /media/{file_path} (elix_api/api.py) over a   *)
(* file system.  A path is the sequence of its parts, as pathlib splits it; *)
(* the part "/" in front makes it absolute.  A location is the sequence of   *)
(* names from the root.                                                      *)
(***************************************************************************)
\* the filenames a multipart upload may carry (<<>>: none)
Filenames ==
    { <<>>, <<"a.mp4">>, <<"b.mp4">>, <<"..", "x.mp4">>, <<"..", "..", "etc", "passwd">>,
      <<"sub", "c.mp4">>, <<"/", "tmp", "y.mp4">> }

\* the file_path values GET /media/{file_path:path} may carry
RequestPaths ==
    { <<"a.mp4">>, <<"b.mp4">>, <<"missing.mp4">>, <<"sub", "a.mp4">>, <<"..", "x.mp4">> }

IsAbsolute(path) == Len(path) > 0 /\ path[1] = "/"

\* pathlib: a / b
JoinPath(a, b) == IF IsAbsolute(b) THEN b ELSE a \o b

\* pathlib: Path(p).name
Name(path) == IF Len(path) = 0 \/ path = <<"/">> THEN <<>> ELSE <<path[Len(path)]>>

Parent(loc) == IF Len(loc) = 0 THEN loc ELSE SubSeq(loc, 1, Len(loc) - 1)

\* the location the operating system reaches from location at along parts;
\* every directory on the way has to exist
RECURSIVE Walk(_, _, _)
Walk(at, parts, disk) ==
    IF Len(parts) = 0 THEN [found |-> TRUE, at |-> at]
    ELSE IF at \notin disk.dirs THEN [found |-> FALSE, at |-> at]
    ELSE IF Head(parts) = ".." THEN Walk(Parent(at), Tail(parts), disk)
    ELSE Walk(at \o <<Head(parts)>>, Tail(parts), disk)

\* the location of a path of the process
Locate(path, disk) ==
    IF IsAbsolute(path) THEN Walk(<<>>, Tail(path), disk) ELSE Walk(Cwd, path, disk)

\* Path.exists()
Exists(path, disk) ==
    LET l == Locate(path, disk) IN l.found /\ l.at \in disk.dirs \cup disk.files

\* os.path.realpath of a path under the working directory: ".." is
\* resolved on the text
RECURSIVE RealPath(_, _)
RealPath(at, parts) ==
    IF Len(parts) = 0 THEN at
    ELSE IF Head(parts) = ".." THEN RealPath(Parent(at), Tail(parts))
    ELSE RealPath(at \o <<Head(parts)>>, Tail(parts))

IsUnder(loc, dir) == Len(loc) > Len(dir) /\ SubSeq(loc, 1, Len(dir)) = dir

OSErrorText(kind, path) == <<kind>> \o path
MediaResponse(route, path, status, body, served_by) ==
    [route |-> route, path |-> path, status |-> status, body |-> body, served_by |-> served_by]

\* upload_video, lines 234-254: the file system and the response it leaves
UploadVideo(filename, disk) ==
    IF Len(filename) = 0
    THEN [fs |-> disk,
          resp |-> MediaResponse("upload", filename, 400, <<"No", "file", "uploaded">>, "upload_video")]
    ELSE LET disk1 == [disk EXCEPT !.dirs = @ \cup {SharedDir}]
             video_path == JoinPath(<<"shared_media">>, filename)
             l == Locate(video_path, disk1)
         IN IF Exists(video_path, disk1)
            THEN [fs |-> disk1,
                  resp |-> MediaResponse("upload", filename, 200, video_path, "upload_video")]
            ELSE IF ~l.found
            THEN [fs |-> disk1,
                  resp |-> MediaResponse("upload", filename, 500,
                                         OSErrorText("FileNotFoundError", video_path),
                                         "upload_video")]
            ELSE [fs |-> [disk1 EXCEPT !.files = @ \cup {l.at}],
                  resp |-> MediaResponse("upload", filename, 200, video_path, "upload_video")]

\* StaticFiles(directory="shared_media"), line 68: the file if the path
\* stays inside the directory and is a file, 404 otherwise
StaticFiles(file_path, disk) ==
    LET full_path == RealPath(SharedDir, file_path) IN
    IF IsUnder(full_path, SharedDir) /\ full_path \in disk.files
    THEN MediaResponse("media", file_path, 200, full_path, "StaticFiles")
    ELSE MediaResponse("media", file_path, 404, <<"Not", "Found">>, "StaticFiles")

\* serve_media, lines 257-272: the HTTPException(404) is raised inside the
\* try block, whose `except Exception` turns it into HTTPException(500)
ServeMedia(file_path, disk) ==
    LET clean_path == Name(file_path)
        media_file == JoinPath(<<"shared_media">>, clean_path)
    IN IF ~Exists(media_file, disk)
       THEN MediaResponse("media", file_path, 500, <<"404:", "File", "not", "found">>, "serve_media")
       ELSE IF Locate(media_file, disk).at \in disk.files
       THEN MediaResponse("media", file_path, 200, Locate(media_file, disk).at, "serve_media")
       ELSE MediaResponse("media", file_path, 500, <<"Internal", "Server", "Error">>, "serve_media")

\* the routes that match /media/..., in the order they are registered:
\* app.mount at line 68, @app.get at line 257
MediaRoutes == <<"StaticFiles", "serve_media">>

LastMatch == MediaRoutes[Len(MediaRoutes)]

\* the router hands a request to the first route that matches
FirstMatch == MediaRoutes[1]

MediaInit ==
    /\ \E present \in SUBSET {<<"a.mp4">>} :
          filesystem = [dirs |-> {<<>>, Cwd, SharedDir, <<"etc">>, <<"tmp">>},
                files |-> {<<"etc", "passwd">>} \cup {SharedDir \o f : f \in present}]
    /\ mediaReq = NoMediaReq

PostUploadVideo ==
    /\ \E filename \in Filenames :
          /\ filesystem' = UploadVideo(filename, filesystem).fs
          /\ mediaReq' = UploadVideo(filename, filesystem).resp

GetMedia ==
    /\ \E file_path \in RequestPaths :
          mediaReq' = IF FirstMatch = "StaticFiles" THEN StaticFiles(file_path, filesystem)
                      ELSE ServeMedia(file_path, filesystem)
    /\ UNCHANGED filesystem

MediaSpecInit == RetryIdle /\ ApiIdle /\ MemIdle /\ AgentIdle /\ ToolsIdle /\ ConfigIdle /\ ChatsIdle /\ MediaInit

MediaNext ==
    \/ PostUploadVideo /\ UNCHANGED exceptMediaVars
    \/ GetMedia /\ UNCHANGED exceptMediaVars

SpecMedia == MediaSpecInit /\ [][MediaNext]_vars

(***************************************************************************)
(* Properties of the upload and media endpoints.                            *)
(***************************************************************************)
\* the files that exist outside shared_media when the service starts
Preexisting == {<<"etc", "passwd">>}

\* C18: every upload that is accepted stores the file directly under
\* shared_media under its base filename: the path it returns is that
\* place, and no file ever appears outside shared_media.
C18_UploadStaysInSharedMedia ==
    /\ (mediaReq.route = "upload" /\ mediaReq.status = 200) =>
          /\ Locate(mediaReq.body, filesystem).found
          /\ Locate(mediaReq.body, filesystem).at = SharedDir \o Name(mediaReq.path)
    /\ \A f \in filesystem.files \ Preexisting : IsUnder(f, SharedDir)

MaxRuns == 2

Segment(similarity, start_time, end_time) ==
    [similarity |-> similarity, start_time |-> start_time, end_time |-> end_time]

\* what the searches of an existing index may return
SpeechResults == {<<>>, <<Segment(5, 0, 10)>>, <<Segment(0, 0, 10)>>, <<Segment(-1, 0, 10)>>}
CaptionResults ==
    {<<>>, <<Segment(3, 20, 30)>>, <<Segment(5, 20, 30)>>, <<Segment(7, 20, 30)>>,
     <<Segment(-2, 20, 30)>>}
ImageResults == {<<>>, <<Segment(4, 40, 50)>>}
CaptionInfos == {<<>>, <<"a", "goal">>}

\* VideoProcessor._check_if_exists
CheckIfExists(index, video_path) == index[video_path] # "none"

\* VideoSearchEngine(video_path): the error of its constructor, NoExc if
\* the index exists
EngineError(index, video_path) ==
    IF index[video_path] = "none"
    THEN Exc("ValueError", << <<"No", "index", "for", video_path>> >>, 1)
    ELSE NoExc

CatchesNothing(e) == FALSE

\* lines 63 and 105: except ValueError
CatchesValueError(e) == e.kind = "ValueError"

\* lines 65 and 107
IndexNotFound(video_path) ==
    Exc("ValueError",
        << <<"Video", "index", "not", "found", "for", video_path, "Please", "process",
             "the", "video", "first", "using", "process_video", "tool">> >>, 1)

\* lines 61-65 and 103-107: the exception the tool raises before any
\* search, NoExc if the engine was constructed
EngineGate(index, video_path) ==
    LET e == EngineError(index, video_path) IN
    IF e = NoExc THEN NoExc
    ELSE IF CatchesValueError(e) THEN IndexNotFound(video_path)
    ELSE e

ToolRaised(tool, video_path, e, searches) ==
    [ tool |-> tool, video_path |-> video_path, raised |-> e, value |-> <<>>,
      searches |-> searches, found |-> NoFound, clip |-> None ]
ToolReturned(tool, video_path, value, searches, clip) ==
    [ tool |-> tool, video_path |-> video_path, raised |-> NoExc, value |-> value,
      searches |-> searches, found |-> NoFound, clip |-> clip ]

\* extract_video_clip(...).filename for the segment
ClipFile(info) == <<"shared_media", "clip.mp4">>

SpeechNeverWins(speech_sim, caption_sim) == FALSE

\* line 78: speech_sim > caption_sim
SpeechWins(speech_sim, caption_sim) == speech_sim > caption_sim

\* lines 70-71: the similarity of the first result, 0 for an empty list
BestSim(clips) == IF Len(clips) > 0 THEN clips[1].similarity ELSE 0

\* get_video_clip_from_user_query, lines 48-87
GetVideoClipFromUserQuery(index, video_path, speech_clips, caption_clips) ==
    LET tool == "get_video_clip_from_user_query"
        gate == EngineGate(index, video_path)
        searches == {"speech", "caption"}
        found == [speech |-> speech_clips, caption |-> caption_clips]
        chosen == IF SpeechWins(BestSim(speech_clips), BestSim(caption_clips))
                  THEN speech_clips ELSE caption_clips
    IN IF gate # NoExc THEN ToolRaised(tool, video_path, gate, {})
       ELSE IF Len(speech_clips) = 0 /\ Len(caption_clips) = 0
       THEN [ToolRaised(tool, video_path,
                        Exc("ValueError", << <<"No", "matching", "clips", "found", "for", "query">> >>, 1),
                        searches) EXCEPT !.found = found]
       ELSE IF Len(chosen) = 0
       THEN [ToolRaised(tool, video_path,
                        Exc("IndexError", << <<"list", "index", "out", "of", "range">> >>, 1),
                        searches) EXCEPT !.found = found]
       ELSE [ToolReturned(tool, video_path, ClipFile(chosen[1]), searches, Some(chosen[1]))
                EXCEPT !.found = found]

\* get_video_clip_from_image, lines 90-121
GetVideoClipFromImage(index, video_path, image_clips) ==
    LET tool == "get_video_clip_from_image"
        gate == EngineGate(index, video_path)
    IN IF gate # NoExc THEN ToolRaised(tool, video_path, gate, {})
       ELSE IF Len(image_clips) = 0
       THEN ToolRaised(tool, video_path,
                       Exc("ValueError", << <<"No", "matching", "image", "clips", "found", "in",
                                              "video", video_path>> >>, 1),
                       {"image"})
       ELSE ToolReturned(tool, video_path, ClipFile(image_clips[1]), {"image"}, Some(image_clips[1]))

\* ask_question_about_video, lines 124-137: the engine's error is not caught
AskQuestionAboutVideo(index, video_path, caption_info) ==
    LET tool == "ask_question_about_video"
        e == EngineError(index, video_path)
    IN IF e # NoExc THEN ToolRaised(tool, video_path, e, {})
       ELSE ToolReturned(tool, video_path, caption_info, {"caption_info"}, None)

\* what add_video may do: return True, return False, raise
IngestErrors ==
    { Exc("RuntimeError", << <<"no", "audio", "track">> >>, 1),
      Exc("RuntimeError", << <<"Bad", "response", "{'detail':'busy'}">> >>, 2) }
IngestOutcomes ==
    {[type |-> "return", value |-> TRUE], [type |-> "return", value |-> FALSE]}
        \cup {[type |-> "raise", exc |-> e] : e \in IngestErrors}

AlreadyProcessed == <<"Video", "already", "processed", "and", "ready", "for", "use.">>

Bump(count, video_path) == [count EXCEPT ![video_path] = @ + 1]

NeverShortCircuits(exists) == FALSE

\* line 30: if exists
ShortCircuits(exists) == exists

\* lines 43-45: the handler of anything raised in the body; the log call
\* passes a keyword argument, so the message is formatted
ProcessingFailed(video_path, e) ==
    IF LogRaises(<<"Error", "processing", "video", video_path>> \o Str(e), TRUE)
    THEN Exc("KeyError", << <<"'detail'">> >>, e.id)
    ELSE Exc("ValueError", << <<"Failed", "to", "process", "video", video_path>> \o Str(e) >>, e.id)

\* process_video, lines 16-45: the index, the log of what ran and the call
\* record it leaves
ProcessVideo(index, log, video_path, outcome) ==
    LET tool == "process_video"
        started == [log EXCEPT !.setups = Bump(@, video_path), !.runs = Bump(@, video_path)]
    IN
    IF ShortCircuits(CheckIfExists(index, video_path))
    THEN [index |-> index, log |-> log,
          call |-> ToolReturned(tool, video_path, AlreadyProcessed, {}, None)]
    ELSE IF outcome.type = "return" /\ outcome.value
    THEN [index |-> [index EXCEPT ![video_path] = "ready"],
          log |-> [started EXCEPT !.done = Bump(@, video_path)],
          call |-> ToolReturned(tool, video_path, <<"Video", "processed", "successfully.">>,
                                {}, None)]
    ELSE LET e == IF outcome.type = "raise" THEN outcome.exc
                  ELSE Exc("ValueError",
                           << <<"Video", "processing", "failed", "for", video_path>> >>, 1)
         IN [index |-> [index EXCEPT ![video_path] = IF @ = "none" THEN "table" ELSE @],
             log |-> started,
             call |-> ToolRaised(tool, video_path, ProcessingFailed(video_path, e), {})]

ToolsInit ==
    /\ videoIndex = [p \in VideoPaths |-> "none"]
    /\ toolCall = NoToolCall
    /\ ingestLog = NoIngest

ToolProcessVideo ==
    \E video_path \in VideoPaths, outcome \in IngestOutcomes :
        /\ ingestLog.runs[video_path] < MaxRuns
        /\ videoIndex' = ProcessVideo(videoIndex, ingestLog, video_path, outcome).index
        /\ ingestLog' = ProcessVideo(videoIndex, ingestLog, video_path, outcome).log
        /\ toolCall' = ProcessVideo(videoIndex, ingestLog, video_path, outcome).call

ToolClipFromUserQuery ==
    /\ \E video_path \in VideoPaths, speech_clips \in SpeechResults, caption_clips \in CaptionResults :
          toolCall' = GetVideoClipFromUserQuery(videoIndex, video_path, speech_clips, caption_clips)
    /\ UNCHANGED <<videoIndex, ingestLog>>

ToolClipFromImage ==
    /\ \E video_path \in VideoPaths, image_clips \in ImageResults :
          toolCall' = GetVideoClipFromImage(videoIndex, video_path, image_clips)
    /\ UNCHANGED <<videoIndex, ingestLog>>

ToolAskQuestion ==
    /\ \E video_path \in VideoPaths, caption_info \in CaptionInfos :
          toolCall' = AskQuestionAboutVideo(videoIndex, video_path, caption_info)
    /\ UNCHANGED <<videoIndex, ingestLog>>

ToolsSpecInit ==
    RetryIdle /\ ApiIdle /\ MemIdle /\ AgentIdle /\ MediaIdle /\ ConfigIdle /\ ChatsIdle /\ ToolsInit

ToolsNext ==
    \/ ToolProcessVideo /\ UNCHANGED exceptToolVars
    \/ ToolClipFromUserQuery /\ UNCHANGED exceptToolVars
    \/ ToolClipFromImage /\ UNCHANGED exceptToolVars
    \/ ToolAskQuestion /\ UNCHANGED exceptToolVars

SpecTools == ToolsSpecInit /\ [][ToolsNext]_vars

(***************************************************************************)
(* Properties of the media service tools.                                   *)
(***************************************************************************)
ClipTools == {"get_video_clip_from_user_query", "get_video_clip_from_image"}

\* C20: a clip tool called for a video path without an index raises an
\* invalid-input error (ValueError) that tells the caller to process the
\* video first, and runs no search and extracts no clip.
C20_ClipToolsNeedIndex ==
    (toolCall.tool \in ClipTools /\ videoIndex[toolCall.video_path] = "none") =>
        /\ toolCall.raised.kind = "ValueError"
        /\ Contains(LowerText(Str(toolCall.raised)), <<"process", "the", "video", "first">>)
        /\ toolCall.searches = {}
        /\ toolCall.clip = None

C20_Witness ==
    /\ toolCall.tool = "get_video_clip_from_image"
    /\ toolCall.video_path = "b.mp4"
    /\ videoIndex["b.mp4"] = "none"
    /\ videoIndex["a.mp4"] = "ready"
    /\ toolCall.raised = IndexNotFound("b.mp4")

UsesRange(clip, segment) ==
    /\ clip # None
    /\ clip[1].start_time = segment.start_time
    /\ clip[1].end_time = segment.end_time

C22_AnyResultGivesClip ==
    LET f == toolCall.found IN
    (toolCall.tool = "get_video_clip_from_user_query"
        /\ (Len(f.speech) > 0 \/ Len(f.caption) > 0)) =>
        /\ toolCall.raised = NoExc
        /\ \/ Len(f.speech) > 0 /\ toolCall.clip = Some(f.speech[1])
           \/ Len(f.caption) > 0 /\ toolCall.clip = Some(f.caption[1])

\* C23: once process_video has succeeded for a path, every later call for
\* that path returns the already-processed message, creates no table and
\* runs no ingestion; ingestion succeeds at most once per path.
C23_ProcessVideoIdempotent ==
    /\ [](\A p \in VideoPaths : ingestLog.done[p] <= 1)
    /\ [][\A p \in VideoPaths :
            (ingestLog.done[p] >= 1 /\ toolCall' # toolCall
                /\ toolCall'.tool = "process_video" /\ toolCall'.video_path = p) =>
                /\ toolCall'.raised = NoExc
                /\ toolCall'.value = AlreadyProcessed
                /\ ingestLog' = ingestLog
                /\ videoIndex' = videoIndex]_vars

C23_Witness ==
    /\ toolCall.tool = "process_video"
    /\ toolCall.video_path = "a.mp4"
    /\ toolCall.value = AlreadyProcessed
    /\ ingestLog.done["a.mp4"] = 1
    /\ ingestLog.runs["b.mp4"] = 1
    /\ videoIndex["b.mp4"] = "table"

(***************************************************************************)
(* The settings of the API service (elix_api/config.py).  A URL is a        *)
(* sequence of parts; `"elix-mcp" in v` and v.replace look for the part      *)
(* "elix-mcp".                                                               *)
(***************************************************************************)
\* longest MCP_SERVER value tried, in parts
MaxUrlLen == 2

UrlParts == {"http://", "elix-mcp", "localhost", "ELIX-MCP", ":9090/mcp/"}
Urls == UNION {[1..n -> UrlParts] : n \in 0..MaxUrlLen}

ContainerHost == "elix-mcp"
ContainerUrl == <<"http://", "elix-mcp", ":9090/mcp/">>
LoopbackUrl == <<"http://", "localhost", ":9090/mcp/">>

\* _get_default_mcp_server, lines 8-17
GetDefaultMcpServer(in_docker) == IF in_docker THEN ContainerUrl ELSE LoopbackUrl

\* "elix-mcp" in v
HasPart(v, part) == \E i \in 1..Len(v) : v[i] = part

\* v.replace("elix-mcp", "localhost")
ReplacePart(v, old, new) == [i \in 1..Len(v) |-> IF v[i] = old THEN new ELSE v[i]]

KeepsOverride(in_docker, v) == v

\* Settings.validate_mcp_server, lines 53-75
ValidateMcpServer(in_docker, v) ==
    IF HasPart(v, ContainerHost) /\ ~in_docker
    THEN ReplacePart(v, ContainerHost, "localhost")
    ELSE v

\* Settings(): the field's default factory when the variable is unset, the
\* validated value of the environment variable otherwise
Settings(in_docker, env) ==
    [ MCP_SERVER |-> IF env = None THEN GetDefaultMcpServer(in_docker)
                     ELSE ValidateMcpServer(in_docker, env[1]),
      in_docker |-> in_docker, env |-> env ]

ConfigInit ==
    \E in_docker \in BOOLEAN, env \in {None} \cup {Some(u) : u \in Urls} :
        config = [in_docker |-> in_docker, MCP_SERVER |-> env, cached |-> None, got |-> None]

\* get_settings, lines 81-89: the first call constructs the Settings
GetSettingsFirst ==
    /\ config.cached = None
    /\ LET settings == Settings(config.in_docker, config.MCP_SERVER)
       IN config' = [config EXCEPT !.cached = Some(settings), !.got = Some(settings)]

\* get_settings, line 81: later calls return the cached instance
GetSettingsCached ==
    /\ config.cached # None
    /\ config' = [config EXCEPT !.got = config.cached]

\* the environment of the process changes after the settings were loaded
EnvironmentChanges ==
    /\ config.cached # None
    /\ \E in_docker \in BOOLEAN, env \in {None} \cup {Some(<<p>>) : p \in UrlParts} :
          config' = [config EXCEPT !.in_docker = in_docker, !.MCP_SERVER = env, !.got = None]

ConfigSpecInit ==
    RetryIdle /\ ApiIdle /\ MemIdle /\ AgentIdle /\ MediaIdle /\ ToolsIdle /\ ChatsIdle /\ ConfigInit

ConfigNext ==
    \/ GetSettingsFirst /\ UNCHANGED exceptConfigVars
    \/ GetSettingsCached /\ UNCHANGED exceptConfigVars
    \/ EnvironmentChanges /\ UNCHANGED exceptConfigVars

SpecConfig == ConfigSpecInit /\ [][ConfigNext]_vars

\* C24: with the marker absent the resolved server URL never contains the
\* container hostname: unset gives the loopback URL, an override containing
\* the container hostname has it rewritten to loopback.  With the marker
\* present and MCP_SERVER unset the URL is the in-container address.  Any
\* other override is returned unchanged.
C24_ResolvedServerUrl ==
    config.got # None =>
        LET s == config.got[1]
            url == s.MCP_SERVER
        IN /\ ~s.in_docker => ~HasPart(url, ContainerHost)
           /\ (~s.in_docker /\ s.env = None) => url = LoopbackUrl
           /\ (~s.in_docker /\ s.env # None /\ HasPart(s.env[1], ContainerHost)) =>
                 /\ Len(url) = Len(s.env[1])
                 /\ \A i \in 1..Len(url) :
                       url[i] = IF s.env[1][i] = ContainerHost THEN "localhost" ELSE s.env[1][i]
           /\ (s.in_docker /\ s.env = None) => url = ContainerUrl
           /\ (s.env # None /\ (s.in_docker \/ ~HasPart(s.env[1], ContainerHost))) =>
                 url = s.env[1]

C24_Witness ==
    /\ config.got # None
    /\ ~config.got[1].in_docker
    /\ config.got[1].env = Some(<<"http://", "elix-mcp">>)
    /\ config.got[1].MCP_SERVER = <<"http://", "localhost">>

(***************************************************************************)
(* POST /chat requests handled concurrently on the event loop               *)
(* (api.py lines 202-221, base_agent.py lines 28-42).  Each request is a     *)
(* coroutine that runs up to its next await; the requests share the agent.   *)
(* A request's record has the fields of an agent operation; `called` says    *)
(* that one of its fetches has made a protocol call.                         *)
(***************************************************************************)
\* number of POST /chat requests in flight
MaxChats == 2

ChatsInit ==
    /\ \E disable_tools \in DisableLists : agent = NewAgent(disable_tools)
    /\ \E tools \in ServerToolLists, faults \in 0..MaxFaults :
          server = [tools |-> tools, faults |-> faults]
    /\ agentOp = NoOp
    /\ agentLog = NoLog
    /\ http = NoHttp
    /\ chats = <<>>

\* POST /chat arrives: lines 213-214 up to the first await of setup();
\* `during` is the set of requests in flight then, `unset` says that the
\* agent was not set up then
ChatArrives ==
    /\ Len(chats) < MaxChats
    /\ chats' = Append(chats,
                       [ op |-> IF SetupSkips(agent)
                                THEN [NoOp EXCEPT !.handler = "chat", !.pc = "chat"]
                                ELSE [NoOp EXCEPT !.handler = "chat", !.pc = "probe",
                                                  !.outer = DefaultRetry(TRUE)],
                         during |-> {k \in 1..Len(chats) : chats[k].op.pc # "done"},
                         unset |-> ~agent._is_setup ])
    /\ UNCHANGED <<agent, server>>

\* the reachability probe of request i returns
ChatProbe(i) ==
    /\ chats[i].op.pc = "probe"
    /\ \E is_reachable \in {"yes", "no"}, lookup \in {"resolved", "gaierror"} :
          chats' = [chats EXCEPT ![i].op.outer = Probe(@, 0, is_reachable, lookup),
                                 ![i].op.pc = "connect"]
    /\ UNCHANGED <<agent, server>>

\* one pass of the wrapper of request i begins: line 35 opens the connection
ChatConnect(i) ==
    /\ chats[i].op.pc = "connect"
    /\ IF Invokes(chats[i].op.outer)
       THEN \E res \in ConnectResults(server) :
               /\ chats' = [chats EXCEPT ![i].op =
                              IF res = NoExc
                              THEN [@ EXCEPT !.pc = "fetch", !.fetch = 1, !.elapsed = 0,
                                             !.inner = DefaultRetry(FALSE)]
                              ELSE AfterSetupPass(@, 0, res)]
               /\ server' = Served(server, res)
       ELSE /\ chats' = [chats EXCEPT ![i].op = AfterSetupPass(@, 0, NoExc)]
            /\ UNCHANGED server
    /\ agent' = AgentAfter(agent, chats'[i].op)

\* lines 36-39: one protocol call of the fetch request i is in
ChatFetch(i) ==
    /\ chats[i].op.pc = "fetch"
    /\ \E res \in ProtocolResults(server) :
          LET o == chats[i].op
              invoked == Invokes(o.inner)
              inner1 == RunAttempt(o.inner, 0, IF invoked THEN res ELSE NoExc)
              o1 == AfterFetchPass(Counted(o, invoked, res), inner1)
              a1 == IF FetchReturned(inner1) THEN Assign(agent, o.fetch, server) ELSE agent
          IN /\ chats' = [chats EXCEPT ![i].op = o1]
             /\ agent' = AgentAfter(a1, o1)
             /\ server' = IF invoked THEN Served(server, res) ELSE server

\* lines 216-221: agent.chat of request i returns or raises
ChatAnswers(i) ==
    /\ chats[i].op.pc = "chat"
    /\ \E e \in {NoExc} \cup ChatErrors :
          chats' = [chats EXCEPT ![i].op.pc = "done", ![i].op.fetch = 5,
                                 ![i].op.result = IF e = NoExc THEN ReturnValue(<<>>)
                                                  ELSE RaiseExc(e)]
    /\ UNCHANGED <<agent, server>>

ChatsSpecInit ==
    RetryIdle /\ ApiIdle /\ MemIdle /\ MediaIdle /\ ToolsIdle /\ ConfigIdle /\ ChatsInit

ChatsNext ==
    \/ ChatArrives /\ UNCHANGED exceptChatVars
    \/ \E i \in 1..Len(chats) : ChatProbe(i) /\ UNCHANGED exceptChatVars
    \/ \E i \in 1..Len(chats) : ChatConnect(i) /\ UNCHANGED exceptChatVars
    \/ \E i \in 1..Len(chats) : ChatFetch(i) /\ UNCHANGED exceptChatVars
    \/ \E i \in 1..Len(chats) : ChatAnswers(i) /\ UNCHANGED exceptChatVars

SpecChats == ChatsSpecInit /\ [][ChatsNext]_vars

\* C30: of two POST /chat requests handled concurrently (the second arrived
\* while the first was in flight) before the agent had been set up, at most
\* one makes the protocol calls of the setup fetch sequence.
C30_OneRequestFetches ==
    \A k \in 1..Len(chats) : \A i \in chats[k].during :
        chats[k].unset => ~(chats[i].op.called /\ chats[k].op.called)

\* C31: during one setup() call in which every protocol call of the
\* sub-fetches fails with a retryable connection error, each sub-fetch (the
\* tool listing, each prompt fetch) makes at most max_retries + 1 protocol
\* calls in total.
C31_NestedRetriesDoNotMultiply ==
    (agentOp.handler \in {"setup", "chat"} /\ agentOp.all_failed) =>
        \A f \in 1..4 : agentOp.tries[f] <= DefaultMaxRetries + 1

\* the rows of `before` are the first rows of `after`, in order
StartsWith(after, before) ==
    /\ Len(before) <= Len(after)
    /\ SubSeq(after, 1, Len(before)) = before

\* C32: the memory log is durable and append-only: only reset_memory
\* removes records.  Any other step, in particular the construction of a
\* Memory whose name gives an existing directory (the same name, or one
\* that differs only in hyphens and periods), keeps every directory with
\* its rows as the first rows, and get_all() on the instance the step
\* leaves returns the rows its directory had.
C32_MemoryIsAppendOnly ==
    [][memCall'.op # "reset_memory" =>
          /\ \A d \in DOMAIN pxt.dirs :
                /\ d \in DOMAIN pxt'.dirs
                /\ StartsWith(pxt'.dirs[d].rows, pxt.dirs[d].rows)
          /\ memory'.directory \in DOMAIN pxt.dirs =>
                /\ GetAll(pxt', memory').raised = "None"
                /\ StartsWith(GetAll(pxt', memory').value,
                              pxt.dirs[memory'.directory].rows)]_vars

====
